---- MODULE Spec2Model ----
(***************************************************************************)
(* A model of the elevenlabs-rust client library: the three API clients    *)
(* (text-to-speech, voices, user), the shared utilities (request builder,  *)
(* JSON helpers, logging, error type, environment loader).                 *)
(*                                                                         *)
(* Strings whose bytes matter (API keys, environment values, bodies) are   *)
(* sequences of byte values; other strings are opaque TLA+ strings.        *)
(* Option<T> is a sequence of length at most one: None is <<>> and         *)
(* Some(x) is <<x>>.                                                        *)
(***************************************************************************)
EXTENDS Integers, Sequences, FiniteSets, TLC

VARIABLES
    config,   \* client name -> Config held by that client
    calls,    \* call slot -> the call running in it (an async method invocation)
    sent,     \* the HTTP requests handed to the network, in order
    log,      \* the entries emitted through the log facade, in order
    env,      \* the process environment: variable name -> Option<OsString>
    loads,    \* the results returned by the config loader, in order
    rtIn,     \* the TtsRequest handed to serialize
    rtJson,   \* Option: what serialize(rtIn) returned
    rtOut     \* Option: what deserialize of that returned

vars == <<config, calls, sent, log, env, loads, rtIn, rtJson, rtOut>>

----------------------------------------------------------------------------
(* Bounds of the model. *)

MaxCalls    == 2   \* method invocations in one behaviour (they may overlap)
MaxFiles    == 2   \* length of the `files` argument of add_voice / edit_voice
MaxLoads    == 2   \* calls of the config loader in one behaviour
MaxVarLen   == 2   \* length of an environment variable's value
MaxLocators == 2   \* length of pronunciation_dictionary_locators

----------------------------------------------------------------------------
(* Generic helpers. *)

None == <<>>
Some(x) == <<x>>
IsSome(o) == Len(o) = 1
Unwrap(o) == o[1]

RECURSIVE SeqsUpTo(_, _)
SeqsUpTo(S, n) ==
    IF n = 0 THEN {<<>>}
    ELSE LET shorter == SeqsUpTo(S, n - 1)
         IN shorter \cup {Append(s, x) : s \in {t \in shorter : Len(t) = n - 1}, x \in S}

Ok(v) == [ok |-> TRUE, v |-> v]
Fail(e) == [ok |-> FALSE, e |-> e]

----------------------------------------------------------------------------
(* api/utils/serde_helpers.rs and the TtsRequest types of api/tts.rs.       *)
(* A JSON document is a tree: [t |-> type, v |-> payload].                  *)

JNull == [t |-> "null", v |-> <<>>]
JStr(s) == [t |-> "string", v |-> s]
JNum(n) == [t |-> "number", v |-> n]
JBool(b) == [t |-> "bool", v |-> b]
JArr(s) == [t |-> "array", v |-> s]
JObj(f) == [t |-> "object", v |-> f]

\* f32 values: finite ones are opaque tokens, the three non-finite ones are named.
F32Finite == {"0.0", "0.5"}
F32NonFinite == {"NaN", "inf", "-inf"}
F32 == F32Finite \cup F32NonFinite
I32 == {0, 1}

\* serde_json writes a non-finite float as null (JSON has no such number).
SerF32(f) == IF f \in F32NonFinite THEN JNull ELSE JNum(f)
SerI32(n) == JNum(n)
SerString(s) == JStr(s)
SerBool(b) == JBool(b)

\* Option<T>: None is written as null, Some(x) as x (whenSome, the serialized x).
SerOption(o, whenSome) == IF IsSome(o) THEN whenSome ELSE JNull

SerVoiceSettings(vs) ==
    JObj([k \in {"stability", "similarity_boost", "style", "use_speaker_boost"} |->
            CASE k = "stability" -> SerI32(vs.stability)
              [] k = "similarity_boost" -> SerI32(vs.similarity_boost)
              [] k = "style" -> SerOption(vs.style, SerF32(Unwrap(vs.style)))
              [] k = "use_speaker_boost" ->
                    SerOption(vs.use_speaker_boost, SerBool(Unwrap(vs.use_speaker_boost)))])

SerLocator(l) ==
    JObj([k \in {"pronunciation_dictionary_id", "version_id"} |->
            CASE k = "pronunciation_dictionary_id" -> SerString(l.pronunciation_dictionary_id)
              [] k = "version_id" -> SerString(l.version_id)])

SerLocators(ls) == JArr([i \in DOMAIN ls |-> SerLocator(ls[i])])

SerTtsRequest(r) ==
    JObj([k \in {"text", "model_id", "voice_settings", "pronunciation_dictionary_locators"} |->
            CASE k = "text" -> SerString(r.text)
              [] k = "model_id" -> SerOption(r.model_id, SerString(Unwrap(r.model_id)))
              [] k = "voice_settings" ->
                    SerOption(r.voice_settings, SerVoiceSettings(Unwrap(r.voice_settings)))
              [] k = "pronunciation_dictionary_locators" ->
                    SerOption(r.pronunciation_dictionary_locators,
                              SerLocators(Unwrap(r.pronunciation_dictionary_locators)))])

\* serialize::<TtsRequest>: serde_json::to_string never fails on these types.
serialize(item) == Ok(SerTtsRequest(item))

HasKey(j, k) == k \in DOMAIN j.v

\* The value of key k in object j; JMissing when the object has no such key.
JMissing == [t |-> "missing", v |-> <<>>]
Field(j, k) == IF HasKey(j, k) THEN j.v[k] ELSE JMissing

DeTyped(j, ty) == IF j.t = ty THEN Ok(j.v) ELSE Fail("invalid type")
DeString(j) == DeTyped(j, "string")
DeBool(j) == DeTyped(j, "bool")
DeI32(j) == IF j.t = "number" /\ j.v \in I32 THEN Ok(j.v) ELSE Fail("invalid type")
DeF32(j) == IF j.t = "number" THEN Ok(j.v) ELSE Fail("invalid type")

\* A required field: it must be present and of the field's type
\* (f the field's value, decoded what the field's decoder makes of f).
DeField(f, decoded) == IF f.t = "missing" THEN Fail("missing field") ELSE decoded

\* DeOptionField as it would be if only a missing key, not null, gave None.
DeOptionField_strict(f, decoded) ==
    IF f.t = "missing" THEN Ok(None)
    ELSE IF decoded.ok THEN Ok(Some(decoded.v)) ELSE decoded

\* An Option<T> field: a missing key and null both give None.
DeOptionField(f, decoded) ==
    IF f.t \in {"missing", "null"} THEN Ok(None)
    ELSE IF decoded.ok THEN Ok(Some(decoded.v)) ELSE decoded

DeVoiceSettings(j) ==
    IF j.t # "object" THEN Fail("invalid type")
    ELSE LET st == DeField(Field(j, "stability"), DeI32(Field(j, "stability")))
             sb == DeField(Field(j, "similarity_boost"), DeI32(Field(j, "similarity_boost")))
             sy == DeOptionField(Field(j, "style"), DeF32(Field(j, "style")))
             ub == DeOptionField(Field(j, "use_speaker_boost"),
                                 DeBool(Field(j, "use_speaker_boost")))
         IN IF ~st.ok THEN st
            ELSE IF ~sb.ok THEN sb
            ELSE IF ~sy.ok THEN sy
            ELSE IF ~ub.ok THEN ub
            ELSE Ok([stability |-> st.v, similarity_boost |-> sb.v,
                     style |-> sy.v, use_speaker_boost |-> ub.v])

DeLocator(j) ==
    IF j.t # "object" THEN Fail("invalid type")
    ELSE LET id == DeField(Field(j, "pronunciation_dictionary_id"),
                           DeString(Field(j, "pronunciation_dictionary_id")))
             ver == DeField(Field(j, "version_id"), DeString(Field(j, "version_id")))
         IN IF ~id.ok THEN id
            ELSE IF ~ver.ok THEN ver
            ELSE Ok([pronunciation_dictionary_id |-> id.v, version_id |-> ver.v])

DeLocators(j) ==
    IF j.t # "array" THEN Fail("invalid type")
    ELSE IF \E i \in DOMAIN j.v : ~DeLocator(j.v[i]).ok THEN Fail("invalid type")
    ELSE Ok([i \in DOMAIN j.v |-> DeLocator(j.v[i]).v])

DeTtsRequest(j) ==
    IF j.t # "object" THEN Fail("invalid type")
    ELSE LET tx == DeField(Field(j, "text"), DeString(Field(j, "text")))
             md == DeOptionField(Field(j, "model_id"), DeString(Field(j, "model_id")))
             vs == DeOptionField(Field(j, "voice_settings"),
                                 DeVoiceSettings(Field(j, "voice_settings")))
             pl == DeOptionField(Field(j, "pronunciation_dictionary_locators"),
                                 DeLocators(Field(j, "pronunciation_dictionary_locators")))
         IN IF ~tx.ok THEN tx
            ELSE IF ~md.ok THEN md
            ELSE IF ~vs.ok THEN vs
            ELSE IF ~pl.ok THEN pl
            ELSE Ok([text |-> tx.v, model_id |-> md.v, voice_settings |-> vs.v,
                     pronunciation_dictionary_locators |-> pl.v])

\* deserialize::<TtsRequest>
deserialize(s) == DeTtsRequest(s)

\* The values of the request types.
VoiceSettingsValues ==
    [stability : I32, similarity_boost : {1},
     style : {None} \cup {Some(f) : f \in F32},
     use_speaker_boost : {None, Some(TRUE), Some(FALSE)}]

LocatorValues == [pronunciation_dictionary_id : {"dict"}, version_id : {"v"}]

TtsRequestValues ==
    [text : {"Hello"},
     model_id : {None, Some("model")},
     voice_settings : {None} \cup {Some(vs) : vs \in VoiceSettingsValues},
     pronunciation_dictionary_locators :
        {None} \cup {Some(ls) : ls \in SeqsUpTo(LocatorValues, MaxLocators)}]

NoRequest == [text |-> "", model_id |-> None, voice_settings |-> None,
              pronunciation_dictionary_locators |-> None]

----------------------------------------------------------------------------
(* api/utils/config_loader.rs *)

KEY_VAR == "ELEVENLABS_API_KEY"
URL_VAR == "ELEVENLABS_API_URL"
EnvVars == {KEY_VAR, URL_VAR}

\* Bytes an environment value is made of: 'k', ' ' and 0xFF (never valid UTF-8).
EnvBytes == {107, 32, 255}
OsStrings == SeqsUpTo(EnvBytes, MaxVarLen)

\* OsString::into_string succeeds on valid UTF-8 only; over EnvBytes that is
\* "every byte is ASCII".
IsUnicode(s) == \A i \in DOMAIN s : s[i] < 128

\* std::env::var as both loaders call it.
env_var(e, name) ==
    IF ~IsSome(e[name]) THEN Fail([kind |-> "NotPresent", value |-> <<>>])
    ELSE IF IsUnicode(Unwrap(e[name])) THEN Ok(Unwrap(e[name]))
    ELSE Fail([kind |-> "NotUnicode", value |-> Unwrap(e[name])])

\* load_api_key as it would be if it read the URL variable.
load_api_key_result_wrong_var(e) == env_var(e, URL_VAR)

load_api_key_result(e) == env_var(e, KEY_VAR)
load_api_url_result(e) == env_var(e, URL_VAR)

load_api_key ==
    /\ Len(loads) < MaxLoads
    /\ loads' = Append(loads, [fn |-> "load_api_key", result |-> load_api_key_result(env)])
    /\ UNCHANGED <<config, calls, sent, log, env, rtIn, rtJson, rtOut>>

load_api_url ==
    /\ Len(loads) < MaxLoads
    /\ loads' = Append(loads, [fn |-> "load_api_url", result |-> load_api_url_result(env)])
    /\ UNCHANGED <<config, calls, sent, log, env, rtIn, rtJson, rtOut>>

----------------------------------------------------------------------------
(* Config, and the values the callers pass. *)

BaseUrl == "https://api.elevenlabs.io"

KeyA == <<107, 49>>     \* "k1"
KeyBad == <<107, 10>>   \* "k\n": not a legal header value
ApiKeys == {KeyA, KeyBad}

Configs == [api_url : {BaseUrl}, api_key : ApiKeys]
ClientNames == {"tts", "voices", "user"}

VoiceIds == {"v1"}
FilePaths == {"a.mp3", "missing.mp3"}
ExistingFiles == {"a.mp3"}
FileLists == SeqsUpTo(FilePaths, MaxFiles)

\* The requests the text-to-speech calls of the client model carry.
SynthRequests ==
    {r \in TtsRequestValues :
        /\ r.model_id = None
        /\ r.pronunciation_dictionary_locators = None
        /\ r.voice_settings \in
              {None, Some([stability |-> 0, similarity_boost |-> 1,
                           style |-> Some("0.5"), use_speaker_boost |-> None])}}

\* voices::VoiceSettings values passed to edit_voice_settings.
SettingsValues ==
    {[stability |-> "0.5", similarity_boost |-> "0.5", style |-> None,
      use_speaker_boost |-> Some(TRUE)]}

----------------------------------------------------------------------------
(* api/utils/http_helpers.rs and the reqwest RequestBuilder the clients     *)
(* drive. A builder is the request under construction, or an error once a  *)
(* header could not be built; send() of an erroneous builder fails without *)
(* touching the network.                                                   *)

NoBody == [kind |-> "none", v |-> <<>>]

\* HeaderValue::from_str: visible ASCII, space and tab only.
IsValidHeaderValue(s) == \A i \in DOMAIN s : (s[i] >= 32 /\ s[i] # 127) \/ s[i] = 9

client_request(method, url) ==
    [method |-> method, url |-> url, headers |-> <<>>, query |-> <<>>,
     body |-> NoBody, err |-> FALSE]

\* RequestBuilder::header with a value known to be legal (a literal).
header(rb, name, value) ==
    IF rb.err THEN rb ELSE [rb EXCEPT !.headers = Append(@, <<name, value>>)]

\* header_value as it would be if the header were validated but never attached.
header_value_dropped(rb, name, value) ==
    IF rb.err THEN rb
    ELSE IF IsValidHeaderValue(value) THEN rb
    ELSE [rb EXCEPT !.err = TRUE]

\* RequestBuilder::header with a run-time value: an illegal one poisons the builder.
header_value(rb, name, value) ==
    IF rb.err THEN rb
    ELSE IF IsValidHeaderValue(value) THEN [rb EXCEPT !.headers = Append(@, <<name, value>>)]
    ELSE [rb EXCEPT !.err = TRUE]

HasHeader(rb, name) == \E i \in DOMAIN rb.headers : rb.headers[i][1] = name

\* BoolStr as it would be if the flag were written inverted.
BoolStr_inverted(b) == IF b THEN "false" ELSE "true"

BoolStr(b) == IF b THEN "true" ELSE "false"

\* RequestBuilder::query with one (name, bool) pair.
query(rb, name, flag) ==
    IF rb.err THEN rb ELSE [rb EXCEPT !.query = Append(@, <<name, BoolStr(flag)>>)]

\* RequestBuilder::json: the body, and Content-Type unless one is set already.
json(rb, doc) ==
    IF rb.err THEN rb
    ELSE LET withBody == [rb EXCEPT !.body = [kind |-> "json", v |-> doc]]
         IN IF HasHeader(rb, "Content-Type") THEN withBody
            ELSE header(withBody, "Content-Type", "application/json")

\* RequestBuilder::multipart: the form as body and its Content-Type.
multipart(rb, form) ==
    IF rb.err THEN rb
    ELSE header([rb EXCEPT !.body = [kind |-> "multipart", v |-> form]],
                "Content-Type", "multipart/form-data")

create_request(method, url) ==
    header(header(client_request(method, url), "Accept", "application/json"),
           "Content-Type", "application/json")

\* multipart::Part::file: opening the path fails when the file is not there.
PartFile(path) ==
    IF path \in ExistingFiles THEN Ok([name |-> "files", kind |-> "file", v |-> path])
    ELSE Fail("No such file or directory")

TextPart(name, value) == [name |-> name, kind |-> "text", v |-> value]

\* AttachFiles as it would be if a path that cannot be opened were skipped.
AttachFiles_skip_failed(form, files) ==
    LET opened == SelectSeq(files, LAMBDA path : PartFile(path).ok)
    IN Ok(form \o [i \in DOMAIN opened |-> PartFile(opened[i]).v])

\* The `for file_path in files` loop: `?` leaves the function at the first
\* path that cannot be opened; the failure is recorded with that path and
\* the form as it stood.
RECURSIVE AttachFiles(_, _)
AttachFiles(form, files) ==
    IF files = <<>> THEN Ok(form)
    ELSE LET file == PartFile(Head(files))
         IN IF file.ok THEN AttachFiles(Append(form, file.v), Tail(files))
            ELSE Fail([msg |-> file.e, path |-> Head(files), form |-> form])

\* BuildForm as it would be if the labels field were added before the description.
BuildForm_labels_first(name, files, description, labels) ==
    LET withFiles == AttachFiles(<<TextPart("name", name)>>, files)
    IN IF ~withFiles.ok THEN withFiles
       ELSE LET withLabels == IF IsSome(labels)
                              THEN Append(withFiles.v, TextPart("labels", Unwrap(labels)))
                              ELSE withFiles.v
                withDesc == IF IsSome(description)
                            THEN Append(withLabels, TextPart("description", Unwrap(description)))
                            ELSE withLabels
            IN Ok(withDesc)

\* The form add_voice and edit_voice build.
BuildForm(name, files, description, labels) ==
    LET withFiles == AttachFiles(<<TextPart("name", name)>>, files)
    IN IF ~withFiles.ok THEN withFiles
       ELSE LET withDesc == IF IsSome(description)
                            THEN Append(withFiles.v, TextPart("description", Unwrap(description)))
                            ELSE withFiles.v
                withLabels == IF IsSome(labels)
                              THEN Append(withDesc, TextPart("labels", Unwrap(labels)))
                              ELSE withDesc
            IN Ok(withLabels)

----------------------------------------------------------------------------
(* HTTP responses. *)

Statuses == {101, 200, 204, 304, 401, 404, 500}

\* is_success as it would be if only 200 counted as success.
is_success_only_200(status) == status = 200

\* StatusCode::is_success
is_success(status) == 200 <= status /\ status < 300

\* Response::error_for_status_ref: an error for 4xx and 5xx only.
error_for_status_ref(status) ==
    (400 <= status /\ status < 500) \/ (500 <= status /\ status < 600)

StatusDigits(status) ==
    CASE status = 101 -> "101" [] status = 200 -> "200" [] status = 204 -> "204"
      [] status = 304 -> "304" [] status = 401 -> "401" [] status = 404 -> "404"
      [] status = 500 -> "500"

StatusReason(status) ==
    CASE status = 101 -> "Switching Protocols" [] status = 200 -> "OK"
      [] status = 204 -> "No Content" [] status = 304 -> "Not Modified"
      [] status = 401 -> "Unauthorized" [] status = 404 -> "Not Found"
      [] status = 500 -> "Internal Server Error"

\* Display of StatusCode: "404 Not Found", as a sequence of text pieces.
StatusDisplay(status) == <<StatusDigits(status), " ", StatusReason(status)>>

\* Display of the reqwest::Error error_for_status_ref returns.
StatusErrorDisplay(status) ==
    <<IF status < 500 THEN "HTTP status client error (" ELSE "HTTP status server error (">>
    \o StatusDisplay(status) \o <<") for url">>

Contains(msg, piece) == \E i \in DOMAIN msg : msg[i] = piece

\* Response bodies: the bytes on the wire and, when the bytes are a JSON text,
\* the document they parse to (doc).
VoiceDoc == JObj([k \in {"voice_id"} |-> JStr("v1")])

InvoiceDoc ==
    JObj([k \in {"amount_due_cents", "next_payment_attempt_unix"} |-> JNum(0)])

SubscriptionStrings == {"tier", "currency", "status", "billing_period"}
SubscriptionNumbers ==
    {"character_count", "character_limit", "next_character_count_reset_unix",
     "voice_limit", "max_voice_add_edits", "voice_add_edit_counter",
     "professional_voice_limit"}
SubscriptionBools ==
    {"can_extend_character_limit", "allowed_to_extend_character_limit",
     "can_extend_voice_limit", "can_use_instant_voice_cloning",
     "can_use_professional_voice_cloning", "has_open_invoices"}

SubscriptionDoc ==
    JObj([k \in SubscriptionStrings \cup SubscriptionNumbers \cup SubscriptionBools
                \cup {"next_invoice"} |->
            IF k \in SubscriptionStrings THEN JStr("s")
            ELSE IF k \in SubscriptionNumbers THEN JNum(0)
            ELSE IF k \in SubscriptionBools THEN JBool(TRUE)
            ELSE InvoiceDoc])

UserBools == {"is_new_user", "can_use_delayed_payment_methods", "is_onboarding_completed"}

UserDoc ==
    JObj([k \in UserBools \cup {"subscription", "xi_api_key", "first_name"} |->
            IF k \in UserBools THEN JBool(FALSE)
            ELSE IF k = "subscription" THEN SubscriptionDoc
            ELSE IF k = "xi_api_key" THEN JStr("k1")
            ELSE JNull])

Bodies ==
    {[bytes |-> <<>>, doc |-> None],
     [bytes |-> <<0, 255>>, doc |-> None],
     [bytes |-> <<123, 118, 125>>, doc |-> Some(VoiceDoc)],
     [bytes |-> <<123, 115, 125>>, doc |-> Some(SubscriptionDoc)],
     [bytes |-> <<123, 117, 125>>, doc |-> Some(UserDoc)]}

\* to_vec as it would be if the copy lost the last byte.
to_vec_truncated(bytes) == SubSeq(bytes, 1, Len(bytes) - 1)

\* Bytes::to_vec: a copy, element by element.
RECURSIVE to_vec(_)
to_vec(bytes) == IF bytes = <<>> THEN <<>> ELSE <<Head(bytes)>> \o to_vec(Tail(bytes))

\* Response::text: the body decoded as UTF-8, an illegal byte replaced by U+FFFD.
text(bytes) == [i \in DOMAIN bytes |-> IF bytes[i] < 128 THEN bytes[i] ELSE 65533]

\* Every key of `keys` is present in object j with type ty.
FieldsOk(j, keys, ty) == \A k \in keys : HasKey(j, k) /\ j.v[k].t = ty

DeVoiceMetadata(j) ==
    IF j.t # "object" THEN Fail("invalid type")
    ELSE LET id == DeField(Field(j, "voice_id"), DeString(Field(j, "voice_id")))
         IN IF ~id.ok THEN id ELSE Ok([voice_id |-> id.v])

DeNextInvoiceDetails(j) ==
    IF j.t = "object" /\ FieldsOk(j, {"amount_due_cents", "next_payment_attempt_unix"}, "number")
    THEN Ok([k \in DOMAIN j.v |-> j.v[k].v])
    ELSE Fail("invalid NextInvoiceDetails")

DeSubscriptionInfo(j) ==
    IF /\ j.t = "object"
       /\ FieldsOk(j, SubscriptionStrings, "string")
       /\ FieldsOk(j, SubscriptionNumbers, "number")
       /\ FieldsOk(j, SubscriptionBools, "bool")
       /\ HasKey(j, "next_invoice")
       /\ DeNextInvoiceDetails(j.v["next_invoice"]).ok
    THEN Ok([k \in SubscriptionStrings \cup SubscriptionNumbers \cup SubscriptionBools
                   \cup {"next_invoice"} |->
                IF k = "next_invoice" THEN DeNextInvoiceDetails(j.v[k]).v ELSE j.v[k].v])
    ELSE Fail("invalid SubscriptionInfo")

DeUserInfo(j) ==
    IF /\ j.t = "object"
       /\ FieldsOk(j, UserBools, "bool")
       /\ FieldsOk(j, {"xi_api_key"}, "string")
       /\ HasKey(j, "subscription")
       /\ DeSubscriptionInfo(j.v["subscription"]).ok
       /\ DeOptionField(Field(j, "first_name"), DeString(Field(j, "first_name"))).ok
    THEN Ok([k \in UserBools \cup {"subscription", "xi_api_key", "first_name"} |->
                IF k = "subscription" THEN DeSubscriptionInfo(j.v[k]).v
                ELSE IF k = "first_name"
                THEN DeOptionField(Field(j, k), DeString(Field(j, k))).v
                ELSE j.v[k].v])
    ELSE Fail("invalid UserInfo")

\* Response::json::<T>: the body must be a JSON text that decodes as T.
\* (decoded: what T's decoder makes of the document.)
DocOf(body) == IF IsSome(body.doc) THEN Unwrap(body.doc) ELSE JMissing
ResponseJson(body, decoded) == IF ~IsSome(body.doc) THEN Fail("not JSON") ELSE decoded

----------------------------------------------------------------------------
(* api/utils/errors.rs *)

\* The variants the enum UtilsError declares.
UtilsErrorVariants == {"Http", "Io"}

\* An error value as a call site builds it: the variant it names and its message.
Err(kind, msg) == Fail([kind |-> kind, msg |-> msg])

----------------------------------------------------------------------------
(* api/utils/logging.rs *)

\* log_error as it would be if the record were never emitted.
log_error_silent(c, message) == <<>>

\* log_error: one record at error level. `call` tells which invocation emitted it.
log_error(c, message) == <<[level |-> "error", call |-> c, msg |-> message]>>

----------------------------------------------------------------------------
(* The calls. A call is idle, awaiting the response to the request it sent  *)
(* ("await"), awaiting the response body ("body"), or has returned ("done").*)
(* cause records what ended it; status and body what the server answered.  *)

Slots == 1..MaxCalls

NoResponseBody == [bytes |-> <<>>, doc |-> None]

\* A call: its operation and arguments, where it stands, what it read from
\* its response, what it returned and, if opening a file made it return, the
\* path that failed with the form built until then.
IdleCall ==
    [op |-> "none", args |-> <<>>, pc |-> "idle", cause |-> "none", status |-> 0,
     body |-> NoResponseBody, result |-> None, io |-> None]

Returned(call, cause, result) ==
    [call EXCEPT !.pc = "done", !.cause = cause, !.result = Some(result)]

\* What each method does before `.send().await`: the builder to send, or the
\* error it returns on the spot.
synthesize_prepare(cfg, voice_id, request) ==
    LET url == <<cfg.api_url, "/v1/text-to-speech/", voice_id>>
        req_headers == <<<<"Accept", "audio/mpeg">>, <<"Content-Type", "application/json">>,
                         <<"xi-api-key", cfg.api_key>>>>
    IN IF ~IsValidHeaderValue(cfg.api_key)
       THEN Fail([cause |-> "invalid_header", err |-> Err("InvalidHeaderValue", <<>>), io |-> None])
       ELSE Ok(json([client_request("POST", url) EXCEPT !.headers = req_headers],
                    SerTtsRequest(request)))

get_voice_metadata_prepare(cfg, voice_id, with_settings) ==
    LET url == <<cfg.api_url, "/v1/voices/", voice_id>>
    IN Ok(query(header_value(create_request("GET", url), "xi-api-key", cfg.api_key),
                "with_settings", with_settings))

delete_voice_prepare(cfg, voice_id) ==
    LET url == <<cfg.api_url, "/v1/voices/", voice_id>>
    IN Ok(header_value(create_request("DELETE", url), "xi-api-key", cfg.api_key))

add_voice_prepare(cfg, name, files, description, labels) ==
    LET url == <<cfg.api_url, "/v1/voices/add">>
        form == BuildForm(name, files, description, labels)
    IN IF ~form.ok
       THEN Fail([cause |-> "io", err |-> Err("Io", <<form.e.msg>>),
                  io |-> Some([path |-> form.e.path, form |-> form.e.form])])
       ELSE Ok(multipart(header_value(client_request("POST", url), "xi-api-key", cfg.api_key),
                         form.v))

edit_voice_prepare(cfg, voice_id, name, files, description, labels) ==
    LET url == <<cfg.api_url, "/v1/voices/", voice_id, "/edit">>
        form == BuildForm(name, files, description, labels)
    IN IF ~form.ok
       THEN Fail([cause |-> "io", err |-> Err("Io", <<form.e.msg>>),
                  io |-> Some([path |-> form.e.path, form |-> form.e.form])])
       ELSE Ok(multipart(header_value(client_request("POST", url), "xi-api-key", cfg.api_key),
                         form.v))

edit_voice_settings_prepare(cfg, voice_id, settings) ==
    LET url == <<cfg.api_url, "/v1/voices/", voice_id, "/settings/edit">>
    IN Ok(json(header_value(header(client_request("POST", url),
                                   "Content-Type", "application/json"),
                            "xi-api-key", cfg.api_key),
               settings))

\* UserClient::send_request up to `.send().await`.
send_request_prepare(cfg, url) ==
    Ok(header_value(create_request("GET", url), "xi-api-key", cfg.api_key))

\* Start as it would be if a client rewrote the api_url of its Config on each call.
Start_rewriting_config(c, op, args, prep) ==
    /\ calls[c].pc = "idle"
    /\ IF c = 1 THEN TRUE ELSE calls[c - 1].pc # "idle"
    /\ LET call == [IdleCall EXCEPT !.op = op, !.args = args]
       IN IF ~prep.ok
          THEN /\ calls' = [calls EXCEPT ![c] = Returned([call EXCEPT !.io = prep.e.io],
                                                         prep.e.cause, prep.e.err)]
               /\ sent' = sent
          ELSE IF prep.v.err
          THEN /\ calls' = [calls EXCEPT
                            ![c] = Returned(call, "builder", Err("Http", <<"builder error">>))]
               /\ sent' = sent
          ELSE /\ calls' = [calls EXCEPT ![c].op = op, ![c].args = args, ![c].pc = "await"]
               /\ sent' = Append(sent, [call |-> c, method |-> prep.v.method, url |-> prep.v.url,
                                        headers |-> prep.v.headers, query |-> prep.v.query,
                                        body |-> prep.v.body])
    /\ config' = [n \in ClientNames |-> [config[n] EXCEPT !.api_url = "https://api.elevenlabs.io/v1"]]
    /\ UNCHANGED <<log, env, loads, rtIn, rtJson, rtOut>>

\* `.send()`: a good builder puts its request on the network and the call awaits
\* the response; a poisoned builder makes send() fail at once (mapped to Http);
\* an error returned before send() ends the call with nothing sent.
Start(c, op, args, prep) ==
    /\ calls[c].pc = "idle"
    /\ IF c = 1 THEN TRUE ELSE calls[c - 1].pc # "idle"   \* slots are taken in order
    /\ LET call == [IdleCall EXCEPT !.op = op, !.args = args]
       IN IF ~prep.ok
          THEN /\ calls' = [calls EXCEPT ![c] = Returned([call EXCEPT !.io = prep.e.io],
                                                         prep.e.cause, prep.e.err)]
               /\ sent' = sent
          ELSE IF prep.v.err
          THEN /\ calls' = [calls EXCEPT
                            ![c] = Returned(call, "builder", Err("Http", <<"builder error">>))]
               /\ sent' = sent
          ELSE /\ calls' = [calls EXCEPT ![c].op = op, ![c].args = args, ![c].pc = "await"]
               /\ sent' = Append(sent, [call |-> c, method |-> prep.v.method, url |-> prep.v.url,
                                        headers |-> prep.v.headers, query |-> prep.v.query,
                                        body |-> prep.v.body])
    /\ UNCHANGED <<config, log, env, loads, rtIn, rtJson, rtOut>>

synthesize(c) ==
    \E voice_id \in VoiceIds, request \in SynthRequests :
        Start(c, "synthesize", [voice_id |-> voice_id, request |-> request],
              synthesize_prepare(config["tts"], voice_id, request))

get_voice_metadata(c) ==
    \E voice_id \in VoiceIds, with_settings \in BOOLEAN :
        Start(c, "get_voice_metadata", [voice_id |-> voice_id, with_settings |-> with_settings],
              get_voice_metadata_prepare(config["voices"], voice_id, with_settings))

delete_voice(c) ==
    \E voice_id \in VoiceIds :
        Start(c, "delete_voice", [voice_id |-> voice_id],
              delete_voice_prepare(config["voices"], voice_id))

add_voice(c) ==
    \E files \in FileLists, description \in {None, Some("desc")}, labels \in {None, Some("{}")} :
        Start(c, "add_voice",
              [name |-> "Voice", files |-> files, description |-> description, labels |-> labels],
              add_voice_prepare(config["voices"], "Voice", files, description, labels))

edit_voice(c) ==
    \E voice_id \in VoiceIds, files \in FileLists,
       description \in {None, Some("desc")}, labels \in {None, Some("{}")} :
        Start(c, "edit_voice",
              [voice_id |-> voice_id, name |-> "Voice", files |-> files,
               description |-> description, labels |-> labels],
              edit_voice_prepare(config["voices"], voice_id, "Voice", files, description, labels))

edit_voice_settings(c) ==
    \E voice_id \in VoiceIds, settings \in SettingsValues :
        Start(c, "edit_voice_settings", [voice_id |-> voice_id, settings |-> settings],
              edit_voice_settings_prepare(config["voices"], voice_id, settings))

get_user_info(c) ==
    Start(c, "get_user_info", <<>>,
          send_request_prepare(config["user"], <<config["user"].api_url, "/v1/user">>))

get_user_subscription_info(c) ==
    Start(c, "get_user_subscription_info", <<>>,
          send_request_prepare(config["user"],
                               <<config["user"].api_url, "/v1/user/subscription">>))

UserOps == {"get_user_info", "get_user_subscription_info"}

\* The text each method puts before the status in its Custom message.
FailurePrefix(op) ==
    CASE op = "get_voice_metadata" -> "Failed to get voice metadata: HTTP "
      [] op = "delete_voice" -> "Failed to delete voice: HTTP "
      [] op = "add_voice" -> "Failed to add voice: HTTP "
      [] op = "edit_voice" -> "Failed to edit voice: HTTP "
      [] op = "edit_voice_settings" -> "Failed to edit voice settings: HTTP "
      [] op \in UserOps -> "Failed to send request: HTTP "

\* synthesize after `.send().await` returned a response.
synthesize_on_response(call, status) ==
    IF ~error_for_status_ref(status)
    THEN [call EXCEPT !.pc = "body", !.status = status]
    ELSE Returned([call EXCEPT !.status = status], "status",
                  Err("Custom", <<"Failed to synthesize text: ">> \o StatusErrorDisplay(status)))

\* The `if response.status().is_success()` of the VoicesClient methods;
\* readsBody tells whether the success branch awaits the body.
voices_on_response(call, status, readsBody) ==
    IF is_success(status)
    THEN IF readsBody THEN [call EXCEPT !.pc = "body", !.status = status]
         ELSE Returned([call EXCEPT !.status = status], "success", Ok("unit"))
    ELSE Returned([call EXCEPT !.status = status], "status",
                  Err("Custom", <<FailurePrefix(call.op)>> \o StatusDisplay(status)))

\* UserClient::send_request after `.send().await` returned a response: the
\* call as it goes on, and the log records emitted.
send_request_on_response(c, call, status) ==
    IF is_success(status)
    THEN [call |-> [call EXCEPT !.pc = "body", !.status = status], log |-> <<>>]
    ELSE LET error_msg == <<FailurePrefix(call.op)>> \o StatusDisplay(status)
         IN [call |-> Returned([call EXCEPT !.status = status], "status",
                               Err("Custom", error_msg)),
             log |-> log_error(c, error_msg)]

OnResponse(c, call, status) ==
    CASE call.op = "synthesize" ->
            [call |-> synthesize_on_response(call, status), log |-> <<>>]
      [] call.op \in {"get_voice_metadata", "add_voice"} ->
            [call |-> voices_on_response(call, status, TRUE), log |-> <<>>]
      [] call.op \in {"delete_voice", "edit_voice", "edit_voice_settings"} ->
            [call |-> voices_on_response(call, status, FALSE), log |-> <<>>]
      [] call.op \in UserOps -> send_request_on_response(c, call, status)

\* The response (status line and headers) to the request of call c arrives.
Respond(c) ==
    /\ calls[c].pc = "await"
    /\ \E status \in Statuses :
          LET out == OnResponse(c, calls[c], status)
          IN /\ calls' = [calls EXCEPT ![c] = out.call]
             /\ log' = log \o out.log
    /\ UNCHANGED <<config, sent, env, loads, rtIn, rtJson, rtOut>>

\* TransportFailure as it would be if a failed send were retried.
TransportFailure_retry(c) ==
    /\ calls[c].pc = "await"
    /\ \E i \in DOMAIN sent : sent[i].call = c /\ sent' = Append(sent, sent[i])
    /\ UNCHANGED <<config, calls, log, env, loads, rtIn, rtJson, rtOut>>

\* `.send().await` fails: `.map_err(UtilsError::Http)?`.
TransportFailure(c) ==
    /\ calls[c].pc = "await"
    /\ calls' = [calls EXCEPT ![c] = Returned(calls[c], "transport", Err("Http", <<"send error">>))]
    /\ UNCHANGED <<config, sent, log, env, loads, rtIn, rtJson, rtOut>>

\* What the success branch of each body-reading method makes of the body.
OnBody(call, body) ==
    LET decoded ==
            CASE call.op = "synthesize" -> Ok(to_vec(body.bytes))
              [] call.op = "add_voice" -> Ok(text(body.bytes))
              [] call.op = "get_voice_metadata" -> ResponseJson(body, DeVoiceMetadata(DocOf(body)))
              [] call.op = "get_user_info" -> ResponseJson(body, DeUserInfo(DocOf(body)))
              [] call.op = "get_user_subscription_info" ->
                    ResponseJson(body, DeSubscriptionInfo(DocOf(body)))
    IN IF decoded.ok
       THEN Returned([call EXCEPT !.body = body], "success", decoded)
       ELSE Returned([call EXCEPT !.body = body], "decode", Err("Http", <<decoded.e>>))

\* The body of the response arrives in full.
BodyArrives(c) ==
    /\ calls[c].pc = "body"
    /\ \E body \in Bodies : calls' = [calls EXCEPT ![c] = OnBody(calls[c], body)]
    /\ UNCHANGED <<config, sent, log, env, loads, rtIn, rtJson, rtOut>>

\* Reading the body fails: `.map_err(UtilsError::Http)?`.
BodyFails(c) ==
    /\ calls[c].pc = "body"
    /\ calls' = [calls EXCEPT ![c] = Returned(calls[c], "body_read", Err("Http", <<"body error">>))]
    /\ UNCHANGED <<config, sent, log, env, loads, rtIn, rtJson, rtOut>>

----------------------------------------------------------------------------
(* The round trip through the JSON helpers. *)

RoundTripSerialize ==
    /\ rtJson = None
    /\ rtJson' = Some(serialize(rtIn))
    /\ UNCHANGED <<config, calls, sent, log, env, loads, rtIn, rtOut>>

RoundTripDeserialize ==
    /\ IsSome(rtJson) /\ Unwrap(rtJson).ok
    /\ rtOut = None
    /\ rtOut' = Some(deserialize(Unwrap(rtJson).v))
    /\ UNCHANGED <<config, calls, sent, log, env, loads, rtIn, rtJson>>

----------------------------------------------------------------------------
(* Specifications. *)

DefaultConfig == [api_url |-> BaseUrl, api_key |-> KeyA]
NoEnv == [n \in EnvVars |-> None]

\* The clients: one Config, cloned into each client; no call made yet.
Init ==
    /\ \E cfg \in Configs : config = [n \in ClientNames |-> cfg]
    /\ calls = [c \in Slots |-> IdleCall]
    /\ sent = <<>>
    /\ log = <<>>
    /\ env = NoEnv
    /\ loads = <<>>
    /\ rtIn = NoRequest
    /\ rtJson = None
    /\ rtOut = None

Next ==
    \E c \in Slots :
        \/ synthesize(c)
        \/ get_voice_metadata(c)
        \/ delete_voice(c)
        \/ add_voice(c)
        \/ edit_voice(c)
        \/ edit_voice_settings(c)
        \/ get_user_info(c)
        \/ get_user_subscription_info(c)
        \/ Respond(c)
        \/ TransportFailure(c)
        \/ BodyArrives(c)
        \/ BodyFails(c)

Spec == Init /\ [][Next]_vars

\* One client at a time, the same network.
NextTts ==
    \E c \in Slots :
        \/ synthesize(c)
        \/ Respond(c)
        \/ TransportFailure(c)
        \/ BodyArrives(c)
        \/ BodyFails(c)

SpecTts == Init /\ [][NextTts]_vars

NextVoices ==
    \E c \in Slots :
        \/ get_voice_metadata(c)
        \/ delete_voice(c)
        \/ add_voice(c)
        \/ edit_voice(c)
        \/ edit_voice_settings(c)
        \/ Respond(c)
        \/ TransportFailure(c)
        \/ BodyArrives(c)
        \/ BodyFails(c)

SpecVoices == Init /\ [][NextVoices]_vars

NextUser ==
    \E c \in Slots :
        \/ get_user_info(c)
        \/ get_user_subscription_info(c)
        \/ Respond(c)
        \/ TransportFailure(c)
        \/ BodyArrives(c)
        \/ BodyFails(c)

SpecUser == Init /\ [][NextUser]_vars

\* The config loader: any environment.
InitEnv ==
    /\ config = [n \in ClientNames |-> DefaultConfig]
    /\ calls = [c \in Slots |-> IdleCall]
    /\ sent = <<>>
    /\ log = <<>>
    /\ env \in [EnvVars -> {None} \cup {Some(s) : s \in OsStrings}]
    /\ loads = <<>>
    /\ rtIn = NoRequest
    /\ rtJson = None
    /\ rtOut = None

NextEnv == load_api_key \/ load_api_url

SpecEnv == InitEnv /\ [][NextEnv]_vars

\* The JSON helpers: any TtsRequest.
InitSerde ==
    /\ config = [n \in ClientNames |-> DefaultConfig]
    /\ calls = [c \in Slots |-> IdleCall]
    /\ sent = <<>>
    /\ log = <<>>
    /\ env = NoEnv
    /\ loads = <<>>
    /\ rtIn \in TtsRequestValues
    /\ rtJson = None
    /\ rtOut = None

NextSerde == RoundTripSerialize \/ RoundTripDeserialize

SpecSerde == InitSerde /\ [][NextSerde]_vars

----------------------------------------------------------------------------
(* Vocabulary of the properties. *)

Is2xx(status) == status \in 200..299
Done(c) == calls[c].pc = "done"
Res(c) == Unwrap(calls[c].result)
Responded(c) == calls[c].status # 0
NumSent(c) == Cardinality({i \in DOMAIN sent : sent[i].call = c})
NumLogged(c) ==
    Cardinality({i \in DOMAIN log : log[i].call = c /\ log[i].level = "error"})

VoicesOps ==
    {"get_voice_metadata", "delete_voice", "add_voice", "edit_voice", "edit_voice_settings"}

ClientOf(op) ==
    IF op = "synthesize" THEN "tts" ELSE IF op \in VoicesOps THEN "voices" ELSE "user"

IsCustomWithStatus(r, status) ==
    /\ ~r.ok
    /\ r.e.kind = "Custom"
    /\ Contains(r.e.msg, StatusDigits(status))

ApiKeyHeaders(r) == {j \in DOMAIN r.headers : r.headers[j][1] = "xi-api-key"}

----------------------------------------------------------------------------
\* C1: every request that is sent, by any operation of any client, carries
\* exactly one xi-api-key header and its value is the api_key of the Config
\* of the client that sent it.
C1_ApiKeyHeader ==
    \A i \in DOMAIN sent :
        LET r == sent[i]
            key == config[ClientOf(calls[r.call].op)].api_key
        IN /\ Cardinality(ApiKeyHeaders(r)) = 1
           /\ \A j \in ApiKeyHeaders(r) : r.headers[j][2] = key

\* Two requests are on the network, sent by two different clients.
C1_Witness ==
    \E i, j \in DOMAIN sent :
        /\ ClientOf(calls[sent[i].call].op) # ClientOf(calls[sent[j].call].op)
        /\ Cardinality(ApiKeyHeaders(sent[i])) = 1
        /\ Cardinality(ApiKeyHeaders(sent[j])) = 1

\* C2 as claimed: synthesize returns an error for every response whose status
\* is not 2xx (1xx and 3xx included) and for every transport failure, the
\* error for a status being a Custom error whose message contains the
\* status; it returns success only when the status is 2xx.
C2_ErrorUnlessSuccessStatus ==
    \A c \in Slots :
        calls[c].op = "synthesize" =>
            /\ (Responded(c) /\ ~Is2xx(calls[c].status)) =>
                    (Done(c) /\ IsCustomWithStatus(Res(c), calls[c].status))
            /\ (Done(c) /\ calls[c].cause = "transport") => ~Res(c).ok
            /\ (Done(c) /\ Res(c).ok) => Is2xx(calls[c].status)

\* C3: when synthesize got a 2xx response and returns bytes, the bytes are
\* exactly the response body; with a 2xx status it fails only when the body
\* could not be read.
C3_BodyReturnedExactly ==
    \A c \in Slots :
        (calls[c].op = "synthesize" /\ Done(c) /\ Is2xx(calls[c].status)) =>
            \/ calls[c].cause = "body_read" /\ ~Res(c).ok
            \/ /\ Res(c).ok
               /\ Res(c).v = calls[c].body.bytes
               /\ Len(Res(c).v) = Len(calls[c].body.bytes)

\* A 200 response with body 0x00 0xFF was returned as [0, 255] while another
\* call returned an empty body as the empty sequence.
C3_Witness ==
    \E c, d \in Slots :
        /\ calls[c].op = "synthesize" /\ Done(c) /\ calls[c].status = 200
        /\ calls[c].body.bytes = <<0, 255>> /\ Res(c).ok /\ Res(c).v = <<0, 255>>
        /\ calls[d].op = "synthesize" /\ Done(d) /\ Is2xx(calls[d].status)
        /\ calls[d].body.bytes = <<>> /\ Res(d).ok /\ Res(d).v = <<>>

\* C4 as claimed: once a response arrives, each of the five VoicesClient
\* operations succeeds if and only if the status is 2xx, and any other status
\* yields a Custom error whose message contains the status code.
C4_SuccessIffStatus2xx ==
    \A c \in Slots :
        (calls[c].op \in VoicesOps /\ Done(c) /\ Responded(c)) =>
            /\ Res(c).ok <=> Is2xx(calls[c].status)
            /\ ~Is2xx(calls[c].status) => IsCustomWithStatus(Res(c), calls[c].status)

\* C4 amended: a non-2xx status yields a Custom error containing the status
\* code and success needs a 2xx status; delete_voice, edit_voice and
\* edit_voice_settings succeed on every 2xx without reading a body;
\* get_voice_metadata and add_voice read the body of a 2xx response and
\* return an Http error when it cannot be read or, for get_voice_metadata,
\* is not the JSON of a VoiceMetadata.
C4_Amended ==
    \A c \in Slots :
        calls[c].op \in VoicesOps =>
            /\ (Responded(c) /\ ~Is2xx(calls[c].status)) =>
                    (Done(c) /\ IsCustomWithStatus(Res(c), calls[c].status))
            /\ (Done(c) /\ Res(c).ok) => (Responded(c) /\ Is2xx(calls[c].status))
            /\ (Responded(c) /\ Is2xx(calls[c].status)
                    /\ calls[c].op \in {"delete_voice", "edit_voice", "edit_voice_settings"}) =>
                    (Done(c) /\ Res(c).ok /\ calls[c].body = NoResponseBody)
            /\ (Done(c) /\ Is2xx(calls[c].status) /\ calls[c].op = "add_voice") =>
                    \/ Res(c).ok
                    \/ calls[c].cause = "body_read" /\ Res(c).e.kind = "Http"
            /\ (Done(c) /\ Is2xx(calls[c].status) /\ calls[c].op = "get_voice_metadata") =>
                    \/ Res(c).ok /\ IsSome(calls[c].body.doc)
                    \/ calls[c].cause \in {"body_read", "decode"} /\ Res(c).e.kind = "Http"

\* delete_voice succeeded on a 204 while get_voice_metadata failed on a 200
\* whose body does not decode.
C4_Witness ==
    \E c, d \in Slots :
        /\ calls[c].op = "delete_voice" /\ Done(c) /\ calls[c].status = 204 /\ Res(c).ok
        /\ calls[d].op = "get_voice_metadata" /\ Done(d) /\ calls[d].status = 200
        /\ ~Res(d).ok /\ calls[d].cause = "decode"

ResponseCauses == {"transport", "status", "success", "body_read", "decode"}
LocalCauses == {"io", "invalid_header", "builder"}

\* C5 as claimed: every call issues exactly one request and returns only
\* after its response or transport failure: never zero, never a second.
C5_ExactlyOneRequest ==
    \A c \in Slots :
        /\ NumSent(c) <= 1
        /\ Done(c) => (NumSent(c) = 1 /\ calls[c].cause \in ResponseCauses)

\* C5 amended: a call issues at most one request, never a second; it issues
\* exactly one and returns only after that request's response or transport
\* failure, unless its request cannot be built: a file of add_voice or
\* edit_voice cannot be opened, or the API key is not a legal header value.
\* Then it returns the error with no request issued.
C5_Amended ==
    \A c \in Slots :
        LET call == calls[c]
            keyOk == IsValidHeaderValue(config[ClientOf(call.op)].api_key)
            filesOk == call.op \in {"add_voice", "edit_voice"} =>
                          \A i \in DOMAIN call.args.files : call.args.files[i] \in ExistingFiles
        IN /\ NumSent(c) <= 1
           /\ call.pc = "idle" => NumSent(c) = 0
           /\ call.pc \in {"await", "body"} => NumSent(c) = 1
           /\ Done(c) =>
                IF keyOk /\ filesOk
                THEN NumSent(c) = 1 /\ call.cause \in ResponseCauses
                ELSE NumSent(c) = 0 /\ call.cause \in LocalCauses

\* One call returned an I/O error with nothing sent, another returned after
\* the transport failure of its single request.
C5_Witness ==
    \E c, d \in Slots :
        /\ Done(c) /\ calls[c].cause = "io" /\ NumSent(c) = 0
        /\ Done(d) /\ calls[d].cause = "transport" /\ NumSent(d) = 1

\* C6: for get_user_info and get_user_subscription_info a non-2xx response
\* makes send_request emit exactly one error-level log record and return a
\* Custom error whose message contains the status code, the record carrying
\* the same message; in every other case the call has emitted no error record.
C6_LogAndPropagate ==
    \A c \in Slots :
        calls[c].op \in UserOps =>
            IF Responded(c) /\ ~Is2xx(calls[c].status)
            THEN /\ Done(c)
                 /\ IsCustomWithStatus(Res(c), calls[c].status)
                 /\ NumLogged(c) = 1
                 /\ \A i \in DOMAIN log : log[i].call = c => log[i].msg = Res(c).e.msg
            ELSE NumLogged(c) = 0

\* A user call got a 404, logged once and returned the Custom error, while
\* another user call returned from a 2xx with nothing logged.
C6_Witness ==
    \E c, d \in Slots :
        /\ calls[c].op \in UserOps /\ Done(c) /\ calls[c].status = 404
        /\ NumLogged(c) = 1 /\ ~Res(c).ok /\ Res(c).e.kind = "Custom"
        /\ calls[d].op \in UserOps /\ Done(d) /\ Is2xx(calls[d].status)
        /\ NumLogged(d) = 0

\* C7 as claimed: a failure is reported in the kind its cause calls for
\* (transport failure: Http, file access failure: Io, non-2xx status: Custom)
\* and that kind is a variant of the error type.
C7_ThreeKindsByCause ==
    \A c \in Slots :
        (Done(c) /\ ~Res(c).ok /\ calls[c].cause \in {"transport", "io", "status"}) =>
            /\ Res(c).e.kind =
                  (CASE calls[c].cause = "transport" -> "Http"
                     [] calls[c].cause = "io" -> "Io"
                     [] calls[c].cause = "status" -> "Custom")
            /\ Res(c).e.kind \in UtilsErrorVariants

StyleOf(r) == IF IsSome(r.voice_settings) THEN Unwrap(r.voice_settings).style ELSE None
StyleIsFinite(r) == IsSome(StyleOf(r)) => Unwrap(StyleOf(r)) \in F32Finite

\* C8 as claimed: for every TtsRequest r, deserialize(serialize(r)) succeeds
\* and equals r.
C8_RoundTrip ==
    IsSome(rtOut) => (Unwrap(rtOut).ok /\ Unwrap(rtOut).v = rtIn)

\* C8 amended: deserialize(serialize(r)) succeeds for every TtsRequest r and
\* equals r field by field whenever voice_settings.style, if present, is a
\* finite number; a NaN or infinite style is written as null and comes back
\* absent, every other field still equal.
C8_Amended ==
    /\ IsSome(rtJson) => Unwrap(rtJson).ok
    /\ IsSome(rtOut) =>
        /\ Unwrap(rtOut).ok
        /\ IF StyleIsFinite(rtIn)
           THEN Unwrap(rtOut).v = rtIn
           ELSE /\ Unwrap(rtOut).v.text = rtIn.text
                /\ Unwrap(rtOut).v.model_id = rtIn.model_id
                /\ Unwrap(rtOut).v.pronunciation_dictionary_locators =
                      rtIn.pronunciation_dictionary_locators
                /\ Unwrap(rtOut).v.voice_settings =
                      Some([Unwrap(rtIn.voice_settings) EXCEPT !.style = None])

\* A request with settings, a finite style, an absent speaker boost, an absent
\* model and an empty locator list came back equal.
C8_Witness ==
    /\ IsSome(rtOut) /\ Unwrap(rtOut).ok /\ Unwrap(rtOut).v = rtIn
    /\ IsSome(rtIn.voice_settings)
    /\ Unwrap(rtIn.voice_settings).style = Some("0.5")
    /\ Unwrap(rtIn.voice_settings).use_speaker_boost = None
    /\ rtIn.model_id = None
    /\ rtIn.pronunciation_dictionary_locators = Some(<<>>)

ApiKeyLoads == {i \in DOMAIN loads : loads[i].fn = "load_api_key"}

\* C9 as claimed: load_api_key returns a "not set" error when
\* ELEVENLABS_API_KEY is absent and, when it is present, exactly its value.
C9_ExactValueWhenPresent ==
    \A i \in ApiKeyLoads :
        IF env[KEY_VAR] = None
        THEN ~loads[i].result.ok /\ loads[i].result.e.kind = "NotPresent"
        ELSE loads[i].result.ok /\ loads[i].result.v = Unwrap(env[KEY_VAR])

C9_Results ==
    \A i \in ApiKeyLoads :
        IF env[KEY_VAR] = None
        THEN ~loads[i].result.ok /\ loads[i].result.e.kind = "NotPresent"
        ELSE IF \A j \in DOMAIN Unwrap(env[KEY_VAR]) : Unwrap(env[KEY_VAR])[j] # 255
        THEN loads[i].result.ok /\ loads[i].result.v = Unwrap(env[KEY_VAR])
        ELSE /\ ~loads[i].result.ok
             /\ loads[i].result.e.kind = "NotUnicode"
             /\ loads[i].result.e.value = Unwrap(env[KEY_VAR])

\* C9 amended: load_api_key returns a "not set" error when ELEVENLABS_API_KEY
\* is absent, exactly its value (untrimmed) when it is present and valid
\* Unicode, and a "not unicode" error holding the value when it is present
\* but not valid Unicode; ELEVENLABS_API_URL plays no part, and no call of
\* the loader changes the environment.
C9_Amended == [](C9_Results) /\ [][env' = env]_vars

\* load_api_key returned a value with a trailing space as it is, while
\* ELEVENLABS_API_URL holds something else.
C9_Witness ==
    \E i \in ApiKeyLoads :
        /\ env[KEY_VAR] = Some(<<107, 32>>)
        /\ env[URL_VAR] # env[KEY_VAR]
        /\ loads[i].result.ok /\ loads[i].result.v = <<107, 32>>

GetVoiceMetadataRequests ==
    {i \in DOMAIN sent : calls[sent[i].call].op = "get_voice_metadata"}

\* C10: get_voice_metadata(voice_id, with_settings) issues a GET to
\* {base}/v1/voices/{voice_id} whose query string is with_settings=true when
\* the flag is true and with_settings=false when it is false.
C10_WithSettingsQuery ==
    /\ \A i \in GetVoiceMetadataRequests :
          LET args == calls[sent[i].call].args
          IN /\ sent[i].method = "GET"
             /\ sent[i].url = <<config["voices"].api_url, "/v1/voices/", args.voice_id>>
             /\ sent[i].query = <<<<"with_settings",
                                    IF args.with_settings THEN "true" ELSE "false">>>>
    /\ \A c \in Slots :
          (calls[c].op = "get_voice_metadata" /\ calls[c].cause # "builder") => NumSent(c) = 1

\* Both flags are on the network: one request with with_settings=true, one
\* with with_settings=false.
C10_Witness ==
    \E i, j \in GetVoiceMetadataRequests :
        /\ calls[sent[i].call].args.with_settings
        /\ sent[i].query = <<<<"with_settings", "true">>>>
        /\ ~calls[sent[j].call].args.with_settings
        /\ sent[j].query = <<<<"with_settings", "false">>>>

\* What the network handed back to call c: the status and body it read and
\* whether the send or the body read failed.
OwnResponse(c) ==
    [status |-> calls[c].status, body |-> calls[c].body,
     sendFailed |-> calls[c].cause = "transport",
     bodyFailed |-> calls[c].cause = "body_read"]

StripCall(r) ==
    [method |-> r.method, url |-> r.url, headers |-> r.headers, query |-> r.query,
     body |-> r.body]

RequestsOf(c) == {StripCall(sent[i]) : i \in {j \in DOMAIN sent : sent[j].call = c}}
LoggedBy(c) == {log[i].msg : i \in {j \in DOMAIN log : log[j].call = c}}

\* Two calls of the same operation with the same arguments (and so the same
\* Config) sent the same request; if they also got the same response they
\* returned the same result and logged the same, whatever else was in flight
\* and in whatever order they completed.
C11_OwnInputsOnly ==
    \A c, d \in Slots :
        (calls[c].op # "none" /\ calls[c].op = calls[d].op /\ calls[c].args = calls[d].args) =>
            /\ RequestsOf(c) = RequestsOf(d)
            /\ (Done(c) /\ Done(d) /\ OwnResponse(c) = OwnResponse(d)) =>
                    /\ Res(c).ok = Res(d).ok
                    /\ Res(c) = Res(d)
                    /\ LoggedBy(c) = LoggedBy(d)

\* A step leaves every Config as it is, moves at most one call and leaves the
\* others untouched, and only appends to the network and the log, what it
\* appends being the moving call's own.
C11_Frame ==
    /\ config' = config
    /\ \A c, d \in Slots : (calls'[c] # calls[c] /\ d # c) => calls'[d] = calls[d]
    /\ Len(sent') \in {Len(sent), Len(sent) + 1}
    /\ SubSeq(sent', 1, Len(sent)) = sent
    /\ Len(log') \in {Len(log), Len(log) + 1}
    /\ SubSeq(log', 1, Len(log)) = log
    /\ Len(sent') > Len(sent) =>
          calls'[sent'[Len(sent')].call] # calls[sent'[Len(sent')].call]
    /\ Len(log') > Len(log) =>
          calls'[log'[Len(log')].call] # calls[log'[Len(log')].call]

\* C11: under any interleaving of concurrent calls no call touches what
\* another call uses: every client's Config stays what it was, a step of one
\* call changes nothing of any other call, and the request a call sends and
\* the result it returns are determined by its own arguments, the Config and
\* its own response.
C11_NoSharedState == [](C11_OwnInputsOnly) /\ [][C11_Frame]_vars

\* Two calls of the same operation with the same arguments overlap: the one
\* started first still awaits its response while the one started second has
\* already returned from its own.
C11_Witness ==
    /\ calls[1].pc = "await"
    /\ Done(2) /\ Responded(2)
    /\ calls[1].op = calls[2].op /\ calls[1].args = calls[2].args
    /\ NumSent(1) = 1 /\ NumSent(2) = 1

FormOps == {"add_voice", "edit_voice"}

\* The form of request r is the one the arguments a describe: the name field,
\* one files part per path in order, the description iff given, the labels
\* iff given, and nothing else.
FormAsDescribed(r, a) ==
    LET form == r.body.v
        n == Len(a.files)
        d == IF a.description = <<>> THEN 0 ELSE 1
        l == IF a.labels = <<>> THEN 0 ELSE 1
    IN /\ r.body.kind = "multipart"
       /\ Len(form) = 1 + n + d + l
       /\ form[1] = [name |-> "name", kind |-> "text", v |-> a.name]
       /\ \A i \in 1..n : form[1 + i] = [name |-> "files", kind |-> "file", v |-> a.files[i]]
       /\ d = 1 => form[2 + n] = [name |-> "description", kind |-> "text", v |-> a.description[1]]
       /\ l = 1 => form[1 + n + d + l] = [name |-> "labels", kind |-> "text", v |-> a.labels[1]]

SameFormArgs(a, b) ==
    /\ a.name = b.name /\ a.files = b.files
    /\ a.description = b.description /\ a.labels = b.labels

\* The form and the target of every add_voice and edit_voice request, and
\* that the two requests differ in the URL only when the arguments agree.
C12_SameForm ==
    /\ \A i \in DOMAIN sent :
          LET r == sent[i]
              call == calls[r.call]
              api_url == config["voices"].api_url
          IN call.op \in FormOps =>
                /\ FormAsDescribed(r, call.args)
                /\ r.method = "POST"
                /\ call.op = "add_voice" => r.url = <<api_url, "/v1/voices/add">>
                /\ call.op = "edit_voice" =>
                      r.url = <<api_url, "/v1/voices/", call.args.voice_id, "/edit">>
    /\ \A i, j \in DOMAIN sent :
          LET r == sent[i]
              q == sent[j]
          IN (/\ calls[r.call].op = "add_voice" /\ calls[q.call].op = "edit_voice"
              /\ SameFormArgs(calls[r.call].args, calls[q.call].args)) =>
                /\ r.body = q.body /\ r.headers = q.headers
                /\ r.method = q.method /\ r.query = q.query
                /\ r.url # q.url

\* edit_voice returns no value on a 2xx response.
C12_EditReturnsUnit ==
    \A c \in Slots :
        (calls[c].op = "edit_voice" /\ Done(c) /\ Responded(c) /\ Is2xx(calls[c].status)) =>
            Res(c) = [ok |-> TRUE, v |-> "unit"]

\* C12 as stated: add_voice and edit_voice build the same form (name, one
\* files part per path in order, description iff given, labels iff given)
\* from the same arguments and differ only in the URL and in what they
\* return: add_voice the body of the 2xx response unchanged, edit_voice
\* nothing.
C12_SameFormBodyUnchanged ==
    /\ C12_SameForm
    /\ C12_EditReturnsUnit
    /\ \A c \in Slots :
          (calls[c].op = "add_voice" /\ Done(c) /\ calls[c].cause = "success") =>
              Res(c).ok /\ Res(c).v = calls[c].body.bytes

\* C12 amended: the same, except that add_voice returns the body of the 2xx
\* response decoded as UTF-8 text, every byte that is not valid UTF-8
\* replaced by U+FFFD, so the body comes back unchanged only when it is
\* valid UTF-8.
C12_Amended ==
    /\ C12_SameForm
    /\ C12_EditReturnsUnit
    /\ \A c \in Slots :
          (calls[c].op = "add_voice" /\ Done(c) /\ calls[c].cause = "success") =>
              LET b == calls[c].body.bytes
              IN /\ Res(c).ok
                 /\ Is2xx(calls[c].status)
                 /\ Len(Res(c).v) = Len(b)
                 /\ \A i \in DOMAIN b : Res(c).v[i] = IF b[i] < 128 THEN b[i] ELSE 65533

\* An add_voice and an edit_voice call were given the same name, file,
\* description and labels, both sent their request,
\* and both returned from a 2xx response: add_voice with the text of a body
\* holding a byte that is not UTF-8, edit_voice with nothing.
C12_Witness ==
    \E c, d \in Slots :
        /\ calls[c].op = "add_voice" /\ calls[d].op = "edit_voice"
        /\ SameFormArgs(calls[c].args, calls[d].args)
        /\ calls[c].args.files = <<"a.mp3">>
        /\ calls[c].args.description # <<>> /\ calls[c].args.labels # <<>>
        /\ NumSent(c) = 1 /\ NumSent(d) = 1
        /\ Done(c) /\ calls[c].cause = "success" /\ calls[c].body.bytes = <<0, 255>>
        /\ Res(c).v = <<0, 65533>>
        /\ Done(d) /\ calls[d].cause = "success"

\* The positions of the paths of `files` that cannot be opened.
Unopenable(files) == {i \in DOMAIN files : files[i] \notin ExistingFiles}

FilesPart(path) == [name |-> "files", kind |-> "file", v |-> path]

\* The files parts of a form, in order.
FilesPartsOf(form) == SelectSeq(form, LAMBDA part : part.name = "files")

\* C13: an add_voice or edit_voice call one of whose paths cannot be opened
\* returns an I/O error from the first such path, with the name field and the
\* files before that path attached and nothing else, and sends no request;
\* a call whose paths all open does not fail so; hence a request is sent
\* only when every path of the list was attached, once and in order.
C13_StopsAtFirstUnopenable ==
    \A c \in Slots :
        calls[c].op \in FormOps =>
            LET a == calls[c].args
                bad == Unopenable(a.files)
            IN /\ bad # {} =>
                    LET first == CHOOSE i \in bad : \A j \in bad : i <= j
                    IN /\ Done(c) /\ calls[c].cause = "io"
                       /\ ~Res(c).ok /\ Res(c).e.kind = "Io"
                       /\ NumSent(c) = 0
                       /\ ~Responded(c)
                       /\ calls[c].io =
                             <<[path |-> a.files[first],
                                form |-> <<[name |-> "name", kind |-> "text", v |-> a.name]>>
                                         \o [i \in 1..(first - 1) |-> FilesPart(a.files[i])]]>>
               /\ bad = {} => calls[c].cause # "io" /\ calls[c].io = <<>>
               /\ \A i \in DOMAIN sent :
                     sent[i].call = c =>
                        /\ bad = {}
                        /\ FilesPartsOf(sent[i].body.v) = [j \in DOMAIN a.files |-> FilesPart(a.files[j])]

\* A call given an openable path, then an unopenable one, and a description
\* and labels returned the I/O error having attached the first file only and
\* sent nothing, while a call whose two paths open sent its request.
C13_Witness ==
    \E c, d \in Slots :
        /\ calls[c].op \in FormOps /\ calls[c].args.files = <<"a.mp3", "missing.mp3">>
        /\ calls[c].args.description # <<>> /\ calls[c].args.labels # <<>>
        /\ Done(c) /\ calls[c].cause = "io" /\ Res(c).e.kind = "Io"
        /\ NumSent(c) = 0
        /\ Len(calls[c].io[1].form) = 2 /\ calls[c].io[1].path = "missing.mp3"
        /\ calls[d].op \in FormOps /\ calls[d].args.files = <<"a.mp3", "a.mp3">>
        /\ NumSent(d) = 1

====
